---- MODULE Spec2Model ----
(***************************************************************************)
(* Model of scripts/run_rwusd_account.py: the RWUSD trading-cycle launcher. *)
(*                                                                         *)
(* The launcher (parse_args, get_config_from_env_or_args, main) is         *)
(* translated from the source.  The two collaborators it imports,          *)
(* mybian.common.lock_utils.LockFile and the service returned by           *)
(* mybian.app.rwusd_service.get_rwusd_service, are modelled from their     *)
(* contracts in spec.md (sections 4.1 and 4.2).                            *)
(*                                                                         *)
(* Amounts are integers in units of 10 USDT, prices are integers in        *)
(* thousandths (1.0 = 1000), time is counted in seconds.                   *)
(***************************************************************************)
EXTENDS Integers, Sequences, FiniteSets, TLC

VARIABLES
    pc,              \* position of each launcher process in main()
    args,            \* the namespace returned by parse_args()
    lock_file_path,  \* main(): lock_dir / f"rwusd_{account_id}.lock"
    locks,           \* the lock records on the filesystem, by path
    handle,          \* whether the process is inside `with LockFile(...)`
    displaced,       \* history: the process's record was reclaimed while it ran
    exc,             \* the exception propagating out of the with block
    exit_code,       \* the status passed to sys.exit (0 when main returns)
    est,             \* TradingCycleEngine state
    totals,          \* CycleState: total_cycles, total_operated, total_profit
    amount,          \* the amount committed in the current round
    waited,          \* seconds spent in the current retry wait
    retries,         \* rounds skipped or interrupted so far (bounded)
    last,            \* the last engine event and the poll that preceded it
    counts,          \* history: polls, conversions submitted, rounds skipped
    ledger,          \* history: the rounds the exchange settled
    cancelled,       \* the engine was stopped by an external cancellation
    result,          \* the Result returned by execute_trading_cycle
    reported         \* the totals main() logged

vars == <<pc, args, lock_file_path, locks, handle, displaced, exc, exit_code,
          est, totals, amount, waited, retries, last, counts, ledger,
          cancelled, result, reported>>

launcherVars == <<pc, args, lock_file_path, locks, handle, displaced, exc,
                  exit_code, reported>>
engineVars == <<est, totals, amount, waited, retries, last, counts, ledger,
                cancelled, result>>

----------------------------------------------------------------------------
(* Bounds *)

NumProcs == 2
MaxPerRound == 2
MaxTarget == 5
MaxRetryWait == 1
MaxRetries == 2
MaxRounds == 2
CronRetries == 1

Procs == 1..NumProcs

(* Program constants *)

\* --must-profit help: the USDC/USDT price must be > 1.0 (1000 thousandths)
Parity == 1000

None == "<None>"
AccountIds == {"a1", "a2"}
LockDirArgs == {None, "", "/l", "/ro"}
DefaultLockDir == "<project_root>/.locks"
UnwritableDirs == {"/ro"}
ApiKeyArgs == {None, "", "K"}
ApiKeyEnvs == {None, "EK"}
Prices == {999, 1000, 1002}
Profits == {-1, 0, 1}

NoTarget == <<>>
NoPath == <<>>
NoLock == [holder |-> 0, expired |-> FALSE]
NoTotals == [total_cycles |-> 0, total_operated |-> 0, total_profit |-> 0]
NoResult == <<>>
NoReport == <<>>
NoLast == [event |-> "none", price |-> 0, free |-> FALSE]
NoCounts == [polls |-> 0, convs |-> 0, skips |-> 0]
NoLedger == [rounds |-> 0, operated |-> 0, profit |-> 0]
MustProfitFlags == {<<>>, <<"--must-profit">>, <<"--no-must-profit">>}
NoArgs == [account_id |-> None, lock_dir |-> None, per_round_amount |-> 0,
           target_amount |-> NoTarget, retry_wait_seconds |-> 0,
           must_profit |-> TRUE]

\* the configurations a launcher run is started with
EngineConfigs ==
    [per_round_amount : 1..MaxPerRound,
     target_amount : {NoTarget} \cup {<<t>> : t \in 1..MaxTarget},
     retry_wait_seconds : 0..MaxRetryWait,
     must_profit_flags : MustProfitFlags]

\* the configuration of the concurrent runs: the default per-round amount and
\* --must-profit, a target of one round and a retry wait of one second
CronConfigs ==
    [per_round_amount : {1},
     target_amount : {<<1>>},
     retry_wait_seconds : {1},
     must_profit_flags : {<<>>}]

\* what the exchange may answer: reference prices, whether a free allowance
\* exists, realized profits; and how many rounds may be skipped or interrupted
EngineInputs ==
    [prices |-> Prices, frees |-> BOOLEAN, profits |-> Profits,
     max_retries |-> MaxRetries]

CronInputs ==
    [prices |-> {999, 1002}, frees |-> {TRUE}, profits |-> {1},
     max_retries |-> CronRetries]

----------------------------------------------------------------------------
(* Pure functions of the launcher *)

Truthy(s) == s # None /\ s # ""

\* get_config_from_env_or_args: the argument wins when it is non-empty
get_config_from_env_or_args(env_value, arg_value) ==
    IF Truthy(arg_value) THEN arg_value ELSE env_value

\* parse_args(): --must-profit stores True (the default), --no-must-profit False
ParseMustProfit(flags) ==
    IF flags = <<>> THEN TRUE ELSE flags[Len(flags)] = "--must-profit"

\* main(): lock_dir = Path(args.lock_dir) if args.lock_dir else project_root/".locks"
lock_dir_of_NotNone(lock_dir_arg) ==
    IF lock_dir_arg # None THEN lock_dir_arg ELSE DefaultLockDir

lock_dir_of(lock_dir_arg) ==
    IF Truthy(lock_dir_arg) THEN lock_dir_arg ELSE DefaultLockDir

\* main(): lock_file_path = lock_dir / f"rwusd_{args.account_id}.lock"
LockPath(lock_dir_arg, account_id) ==
    <<lock_dir_of(lock_dir_arg), "rwusd_" \o account_id \o ".lock">>

AllPaths == {LockPath(d, a) : d \in LockDirArgs, a \in AccountIds}

----------------------------------------------------------------------------
(* AccountLock (spec.md 4.1): one record per lock path *)

\* the holder token is the process id: a holder is alive while it runs
Alive(q) == q \in Procs /\ pc[q] \in {"ready", "locked", "engine", "report", "exc"}

\* a record is stale when its holder is dead or its age exceeds the threshold
Stale_DeadOnly(rec) == ~Alive(rec.holder)

Stale(rec) == ~Alive(rec.holder) \/ rec.expired

Writable(path) == path[1] \notin UnwritableDirs

\* acquire succeeds on a free record or reclaims a stale one
CanAcquire(path) == locks[path] = NoLock \/ Stale(locks[path])

Acquire(path, p) == [locks EXCEPT ![path] = [holder |-> p, expired |-> FALSE]]

\* release removes the record if it still identifies this holder
Release(path, p) ==
    IF locks[path].holder = p THEN [locks EXCEPT ![path] = NoLock] ELSE locks

\* the record's age passes the staleness threshold
Expire(path) ==
    /\ locks[path] # NoLock
    /\ ~locks[path].expired
    /\ locks' = [locks EXCEPT ![path].expired = TRUE]
    /\ UNCHANGED <<pc, args, lock_file_path, handle, displaced, exc, exit_code,
                   reported>>
    /\ UNCHANGED engineVars

----------------------------------------------------------------------------
(* The launcher: main() *)

InRegion(p) == pc[p] \in {"locked", "engine", "report"}

\* leaving `with LockFile(...)`: __exit__ releases the lock
ExitWith(p) ==
    /\ locks' = Release(lock_file_path[p], p)
    /\ handle' = [handle EXCEPT ![p] = FALSE]

\* an exception leaves the with block on its way to the handlers of main()
Unwind_Leak(p, e) ==
    /\ UNCHANGED <<locks, handle>>
    /\ exc' = [exc EXCEPT ![p] = e]
    /\ pc' = [pc EXCEPT ![p] = "exc"]

Unwind(p, e) ==
    /\ ExitWith(p)
    /\ exc' = [exc EXCEPT ![p] = e]
    /\ pc' = [pc EXCEPT ![p] = "exc"]

\* the except clauses of main(), in order
ExitCodeFor_AllZero(e) == 0

ExitCodeFor(e) ==
    IF e \in {"LockHeldError", "RuntimeError"} THEN 1
    ELSE IF e = "KeyboardInterrupt" THEN 0
    ELSE 1

\* parse_args() and main() up to the computation of lock_file_path
main_start(p, configs) ==
    /\ pc[p] = "init"
    /\ \E a \in AccountIds, d \in LockDirArgs, cfg \in configs,
          key \in ApiKeyArgs, key_env \in ApiKeyEnvs,
          secret \in ApiKeyArgs, secret_env \in ApiKeyEnvs :
          LET api_key == get_config_from_env_or_args(key_env, key)
              api_secret == get_config_from_env_or_args(secret_env, secret)
              ns == [account_id |-> a, lock_dir |-> d,
                     per_round_amount |-> cfg.per_round_amount,
                     target_amount |-> cfg.target_amount,
                     retry_wait_seconds |-> cfg.retry_wait_seconds,
                     must_profit |-> ParseMustProfit(cfg.must_profit_flags)]
          IN  IF ~Truthy(api_key) \/ ~Truthy(api_secret)
              THEN /\ pc' = [pc EXCEPT ![p] = "exited"]
                   /\ exit_code' = [exit_code EXCEPT ![p] = 1]
                   /\ UNCHANGED <<args, lock_file_path>>
              ELSE /\ pc' = [pc EXCEPT ![p] = "ready"]
                   /\ args' = [args EXCEPT ![p] = ns]
                   /\ lock_file_path' =
                          [lock_file_path EXCEPT ![p] = LockPath(d, a)]
                   /\ UNCHANGED exit_code
    /\ UNCHANGED <<locks, handle, displaced, exc, reported>>
    /\ UNCHANGED engineVars

\* `with LockFile(lock_file_path, account_id)` entered
EnterWith_Always(p) ==
    /\ pc[p] = "ready"
    /\ Writable(lock_file_path[p])
    /\ pc' = [pc EXCEPT ![p] = "locked"]
    /\ handle' = [handle EXCEPT ![p] = TRUE]
    /\ UNCHANGED <<args, lock_file_path, locks, displaced, exc, exit_code,
                   reported>>
    /\ UNCHANGED engineVars

EnterWith(p) ==
    LET path == lock_file_path[p]
        rec == locks[path]
    IN  /\ pc[p] = "ready"
        /\ Writable(path)
        /\ CanAcquire(path)
        /\ locks' = Acquire(path, p)
        /\ handle' = [handle EXCEPT ![p] = TRUE]
        /\ displaced' = IF rec # NoLock /\ Alive(rec.holder)
                        THEN [displaced EXCEPT ![rec.holder] = TRUE]
                        ELSE displaced
        /\ pc' = [pc EXCEPT ![p] = "locked"]
        /\ UNCHANGED <<args, lock_file_path, exc, exit_code, reported>>
        /\ UNCHANGED engineVars

\* LockFile raises RuntimeError: another live run holds the lock
EnterWithHeld_Proceeds(p) ==
    /\ pc[p] = "ready"
    /\ Writable(lock_file_path[p])
    /\ ~CanAcquire(lock_file_path[p])
    /\ pc' = [pc EXCEPT ![p] = "locked"]
    /\ UNCHANGED <<args, lock_file_path, locks, handle, displaced, exc,
                   exit_code, reported>>
    /\ UNCHANGED engineVars

EnterWithHeld(p) ==
    /\ pc[p] = "ready"
    /\ Writable(lock_file_path[p])
    /\ ~CanAcquire(lock_file_path[p])
    /\ exc' = [exc EXCEPT ![p] = "LockHeldError"]
    /\ pc' = [pc EXCEPT ![p] = "exc"]
    /\ UNCHANGED <<args, lock_file_path, locks, handle, displaced, exit_code,
                   reported>>
    /\ UNCHANGED engineVars

\* LockFile cannot write the lock directory
EnterWithIOError(p) ==
    /\ pc[p] = "ready"
    /\ ~Writable(lock_file_path[p])
    /\ exc' = [exc EXCEPT ![p] = "LockIOError"]
    /\ pc' = [pc EXCEPT ![p] = "exc"]
    /\ UNCHANGED <<args, lock_file_path, locks, handle, displaced, exit_code,
                   reported>>
    /\ UNCHANGED engineVars

\* get_rwusd_service(...) and the call of service.execute_trading_cycle(...)
StartEngine(p) ==
    /\ pc[p] = "locked"
    /\ pc' = [pc EXCEPT ![p] = "engine"]
    /\ est' = [est EXCEPT ![p] = "Running"]
    /\ UNCHANGED <<args, lock_file_path, locks, handle, displaced, exc,
                   exit_code, reported>>
    /\ UNCHANGED <<totals, amount, waited, retries, last, counts, ledger,
                   cancelled, result>>

\* what main() logs of the result: the three totals, and the average profit
\* rate only if total_operated > 0
Logged_Swapped(r) ==
    <<[total_cycles |-> r.total_cycles, total_operated |-> r.total_profit,
       total_profit |-> r.total_operated,
       avg_profit_rate |-> IF r.total_operated > 0
                           THEN r.avg_profit_rate ELSE <<>>]>>

Logged(r) ==
    <<[total_cycles |-> r.total_cycles, total_operated |-> r.total_operated,
       total_profit |-> r.total_profit,
       avg_profit_rate |-> IF r.total_operated > 0
                           THEN r.avg_profit_rate ELSE <<>>]>>

\* main() logs the result, leaves the with block and returns
Report(p) ==
    /\ pc[p] = "report"
    /\ reported' = [reported EXCEPT ![p] = Logged(result[p][1])]
    /\ ExitWith(p)
    /\ pc' = [pc EXCEPT ![p] = "exited"]
    /\ exit_code' = [exit_code EXCEPT ![p] = 0]
    /\ UNCHANGED <<args, lock_file_path, displaced, exc>>
    /\ UNCHANGED engineVars

\* SIGINT while main() is inside the with block but outside the engine
Interrupt(p) ==
    /\ pc[p] \in {"locked", "report"}
    /\ Unwind(p, "KeyboardInterrupt")
    /\ UNCHANGED <<args, lock_file_path, displaced, exit_code, reported>>
    /\ UNCHANGED engineVars

\* except RuntimeError / KeyboardInterrupt / Exception: sys.exit(...)
Handler(p) ==
    /\ pc[p] = "exc"
    /\ pc' = [pc EXCEPT ![p] = "exited"]
    /\ exit_code' = [exit_code EXCEPT ![p] = ExitCodeFor(exc[p])]
    /\ UNCHANGED <<args, lock_file_path, locks, handle, displaced, exc,
                   reported>>
    /\ UNCHANGED engineVars

\* the process is killed inside the with block (no handler runs)
Crash(p) ==
    /\ InRegion(p)
    /\ pc' = [pc EXCEPT ![p] = "crashed"]
    /\ UNCHANGED <<args, lock_file_path, locks, handle, displaced, exc,
                   exit_code, reported>>
    /\ UNCHANGED engineVars

----------------------------------------------------------------------------
(* TradingCycleEngine (spec.md 4.2): service.execute_trading_cycle *)

\* main(): the keyword arguments of service.execute_trading_cycle(...)
EngineCall_Swapped(ns) ==
    [per_round_amount |-> IF ns.target_amount = NoTarget
                          THEN ns.per_round_amount ELSE ns.target_amount[1],
     target_amount |-> IF ns.target_amount = NoTarget
                       THEN NoTarget ELSE <<ns.per_round_amount>>,
     retry_wait_seconds |-> ns.retry_wait_seconds,
     must_profit |-> ns.must_profit]

EngineCall_NoMustProfit(ns) ==
    [per_round_amount |-> ns.per_round_amount,
     target_amount |-> ns.target_amount,
     retry_wait_seconds |-> ns.retry_wait_seconds,
     must_profit |-> FALSE]

EngineCall(ns) ==
    [per_round_amount |-> ns.per_round_amount,
     target_amount |-> ns.target_amount,
     retry_wait_seconds |-> ns.retry_wait_seconds,
     must_profit |-> ns.must_profit]

\* the TradingCycleConfig of the run
Config(p) == EngineCall(args[p])

Bounded(p) == Config(p).target_amount # NoTarget

\* step 1: remaining capacity
Remaining(p) == Config(p).target_amount[1] - totals[p].total_operated

Min(a, b) == IF a <= b THEN a ELSE b

\* step 2: this round's amount
RoundAmount_Unclamped(p) == Config(p).per_round_amount

RoundAmount(p) ==
    IF Bounded(p) THEN Min(Config(p).per_round_amount, Remaining(p))
    ELSE Config(p).per_round_amount

\* step 3: the profitability gate skips the round
GateSkips_NonStrict(must_profit, free, price) ==
    must_profit /\ free /\ price < Parity

GateSkips(must_profit, free, price) ==
    must_profit /\ free /\ price <= Parity

\* avg_profit_rate = total_profit / total_operated * 100, kept as a fraction
Result(t) ==
    [total_cycles |-> t.total_cycles, total_operated |-> t.total_operated,
     total_profit |-> t.total_profit,
     avg_profit_rate |-> IF t.total_operated > 0
                         THEN <<t.total_profit * 100, t.total_operated>>
                         ELSE <<>>]

\* step 5: the totals after a settled round
Settled(t, amt, profit) ==
    [total_cycles |-> t.total_cycles + 1,
     total_operated |-> t.total_operated + amt,
     total_profit |-> t.total_profit + profit]

\* the totals after a round that was skipped or interrupted
Unsettled_Counted(t) == [t EXCEPT !.total_cycles = @ + 1]

Unsettled(t) == t

\* the engine returns its Result to main()
Return(p) ==
    /\ result' = [result EXCEPT ![p] = <<Result(totals[p])>>]
    /\ pc' = [pc EXCEPT ![p] = "report"]

\* step 1: the target is reached
EngineComplete(p) ==
    /\ pc[p] = "engine" /\ est[p] = "Running"
    /\ Bounded(p) /\ Remaining(p) <= 0
    /\ est' = [est EXCEPT ![p] = "Completed"]
    /\ Return(p)
    /\ UNCHANGED <<args, lock_file_path, locks, handle, displaced, exc,
                   exit_code, reported>>
    /\ UNCHANGED <<totals, amount, waited, retries, last, counts, ledger,
                   cancelled>>

\* steps 2-3: the round is skipped by the profitability gate
EngineSkip(p, X) ==
    /\ pc[p] = "engine" /\ est[p] = "Running"
    /\ ~(Bounded(p) /\ Remaining(p) <= 0)
    /\ retries[p] < X.max_retries
    /\ \E price \in X.prices, free \in X.frees :
          /\ GateSkips(Config(p).must_profit, free, price)
          /\ last' = [last EXCEPT ![p] =
                         [event |-> "skipped", price |-> price, free |-> free]]
    /\ amount' = [amount EXCEPT ![p] = RoundAmount(p)]
    /\ totals' = [totals EXCEPT ![p] = Unsettled(@)]
    /\ counts' = [counts EXCEPT ![p].polls = @ + 1, ![p].skips = @ + 1]
    /\ retries' = [retries EXCEPT ![p] = @ + 1]
    /\ waited' = [waited EXCEPT ![p] = 0]
    /\ est' = [est EXCEPT ![p] = "Waiting"]
    /\ UNCHANGED launcherVars
    /\ UNCHANGED <<ledger, cancelled, result>>

\* steps 2-4: the conversion is submitted
EngineSubmit(p, X) ==
    /\ pc[p] = "engine" /\ est[p] = "Running"
    /\ ~(Bounded(p) /\ Remaining(p) <= 0)
    /\ Bounded(p) \/ totals[p].total_cycles < MaxRounds
    /\ \/ /\ Config(p).must_profit
          /\ \E price \in X.prices, free \in X.frees :
                /\ ~GateSkips(Config(p).must_profit, free, price)
                /\ last' = [last EXCEPT ![p] =
                               [event |-> "submitted", price |-> price,
                                free |-> free]]
          /\ counts' = [counts EXCEPT ![p].polls = @ + 1, ![p].convs = @ + 1]
       \/ /\ ~Config(p).must_profit
          /\ last' = [last EXCEPT ![p] = [NoLast EXCEPT !.event = "submitted"]]
          /\ counts' = [counts EXCEPT ![p].convs = @ + 1]
    /\ amount' = [amount EXCEPT ![p] = RoundAmount(p)]
    /\ est' = [est EXCEPT ![p] = "Executing"]
    /\ UNCHANGED launcherVars
    /\ UNCHANGED <<totals, waited, retries, ledger, cancelled, result>>

\* step 5: settlement
EngineSettle(p, X) ==
    /\ pc[p] = "engine" /\ est[p] = "Executing"
    /\ \E profit \in X.profits :
          /\ totals' = [totals EXCEPT ![p] = Settled(@, amount[p], profit)]
          /\ ledger' = [ledger EXCEPT ![p].rounds = @ + 1,
                                      ![p].operated = @ + amount[p],
                                      ![p].profit = @ + profit]
    /\ last' = [last EXCEPT ![p].event = "settled"]
    /\ est' = [est EXCEPT ![p] = "Running"]
    /\ UNCHANGED launcherVars
    /\ UNCHANGED <<amount, waited, retries, counts, cancelled, result>>

\* step 6: a recoverable interruption
EngineTransient(p, X) ==
    /\ pc[p] = "engine" /\ est[p] = "Executing"
    /\ retries[p] < X.max_retries
    /\ totals' = [totals EXCEPT ![p] = Unsettled(@)]
    /\ last' = [last EXCEPT ![p].event = "transient"]
    /\ retries' = [retries EXCEPT ![p] = @ + 1]
    /\ waited' = [waited EXCEPT ![p] = 0]
    /\ est' = [est EXCEPT ![p] = "Waiting"]
    /\ UNCHANGED launcherVars
    /\ UNCHANGED <<amount, counts, ledger, cancelled, result>>

\* step 7: an unrecoverable error propagates out of the with block
EngineFatal(p) ==
    /\ pc[p] = "engine" /\ est[p] = "Executing"
    /\ est' = [est EXCEPT ![p] = "Aborted"]
    /\ last' = [last EXCEPT ![p].event = "fatal"]
    /\ \E e \in {"RuntimeError", "Exception"} : Unwind(p, e)
    /\ UNCHANGED <<args, lock_file_path, displaced, exit_code, reported>>
    /\ UNCHANGED <<totals, amount, waited, retries, counts, ledger, cancelled,
                   result>>

\* one second of the retry wait passes
Tick(p) ==
    /\ pc[p] = "engine" /\ est[p] = "Waiting"
    /\ waited[p] < Config(p).retry_wait_seconds
    /\ waited' = [waited EXCEPT ![p] = @ + 1]
    /\ UNCHANGED launcherVars
    /\ UNCHANGED <<est, totals, amount, retries, last, counts, ledger,
                   cancelled, result>>

\* the retry wait is over: the round is retried from step 1
WaitDone(p) ==
    /\ pc[p] = "engine" /\ est[p] = "Waiting"
    /\ waited[p] = Config(p).retry_wait_seconds
    /\ est' = [est EXCEPT ![p] = "Running"]
    /\ UNCHANGED launcherVars
    /\ UNCHANGED <<totals, amount, waited, retries, last, counts, ledger,
                   cancelled, result>>

\* an external cancellation at a suspension point: a normal Result
EngineCancel(p) ==
    /\ pc[p] = "engine" /\ est[p] \in {"Executing", "Waiting"}
    /\ est' = [est EXCEPT ![p] = "Completed"]
    /\ cancelled' = [cancelled EXCEPT ![p] = TRUE]
    /\ last' = [last EXCEPT ![p].event = "cancelled"]
    /\ Return(p)
    /\ UNCHANGED <<args, lock_file_path, locks, handle, displaced, exc,
                   exit_code, reported>>
    /\ UNCHANGED <<totals, amount, waited, retries, counts, ledger>>

----------------------------------------------------------------------------
(* Specifications *)

Init ==
    /\ pc = [p \in Procs |-> "init"]
    /\ args = [p \in Procs |-> NoArgs]
    /\ lock_file_path = [p \in Procs |-> NoPath]
    /\ locks = [path \in AllPaths |-> NoLock]
    /\ handle = [p \in Procs |-> FALSE]
    /\ displaced = [p \in Procs |-> FALSE]
    /\ exc = [p \in Procs |-> "none"]
    /\ exit_code = [p \in Procs |-> -1]
    /\ est = [p \in Procs |-> "Idle"]
    /\ totals = [p \in Procs |-> NoTotals]
    /\ amount = [p \in Procs |-> 0]
    /\ waited = [p \in Procs |-> 0]
    /\ retries = [p \in Procs |-> 0]
    /\ last = [p \in Procs |-> NoLast]
    /\ counts = [p \in Procs |-> NoCounts]
    /\ ledger = [p \in Procs |-> NoLedger]
    /\ cancelled = [p \in Procs |-> FALSE]
    /\ result = [p \in Procs |-> NoResult]
    /\ reported = [p \in Procs |-> NoReport]

EngineStep(p, X) ==
    \/ EngineComplete(p)
    \/ EngineSkip(p, X)
    \/ EngineSubmit(p, X)
    \/ EngineSettle(p, X)
    \/ EngineTransient(p, X)
    \/ EngineFatal(p)
    \/ Tick(p)
    \/ WaitDone(p)
    \/ EngineCancel(p)

LauncherStep(p) ==
    \/ EnterWith(p)
    \/ EnterWithIOError(p)
    \/ StartEngine(p)
    \/ Report(p)
    \/ Interrupt(p)
    \/ Handler(p)

\* concurrent launcher runs started with the cron configuration
Next ==
    \/ \E p \in Procs : main_start(p, CronConfigs)
    \/ \E p \in Procs : LauncherStep(p)
    \/ \E p \in Procs : EnterWithHeld(p)
    \/ \E p \in Procs : EngineStep(p, CronInputs)
    \/ \E p \in Procs : Crash(p)
    \/ \E path \in AllPaths : Expire(path)

Spec == Init /\ [][Next]_vars

\* one launcher run, over every engine configuration
NextEngine ==
    \/ main_start(1, EngineConfigs)
    \/ LauncherStep(1)
    \/ EngineStep(1, EngineInputs)

SpecEngine == Init /\ [][NextEngine]_vars

----------------------------------------------------------------------------
(* Claims *)

Exited(p) == pc[p] = "exited"

HoldsRecord(p) == \E path \in AllPaths : locks[path].holder = p

SameAccount(p, q) ==
    /\ lock_file_path[p] # NoPath /\ lock_file_path[q] # NoPath
    /\ args[p].account_id = args[q].account_id

\* C1: a launcher run that has exited, whether the engine returned, raised or
\* was cancelled, is no longer inside the with block and no lock record names
\* it as holder.
C1_ReleasedOnEveryExit ==
    \A p \in Procs : Exited(p) => ~handle[p] /\ ~HoldsRecord(p)

\* a run whose engine raised and a run whose engine was cancelled have exited
C1_Witness ==
    \E p, q \in Procs :
        /\ Exited(p) /\ est[p] = "Aborted"
        /\ Exited(q) /\ exc[q] = "KeyboardInterrupt" /\ cancelled[q]

\* C2 (as claimed): two processes are never inside the protected region for
\* the same account at the same time.
C2_MutualExclusion ==
    \A p, q \in Procs :
        p # q /\ SameAccount(p, q) => ~(InRegion(p) /\ InRegion(q))

\* C2 (amended): a process inside the protected region is the recorded
\* holder of its lock path unless its record aged past the staleness
\* threshold and was reclaimed; so two processes inside the protected region
\* for the same account either use different lock directories (different
\* lock paths) or one of them had its record reclaimed after it expired.
C2_ExclusionPerLockPath ==
    /\ \A p \in Procs :
           InRegion(p) /\ ~displaced[p] =>
               locks[lock_file_path[p]] # NoLock
               /\ locks[lock_file_path[p]].holder = p
    /\ \A p, q \in Procs :
           p # q /\ SameAccount(p, q) /\ InRegion(p) /\ InRegion(q) =>
               \/ lock_file_path[p] # lock_file_path[q]
               \/ displaced[p]
               \/ displaced[q]

\* one process is in the region and a contender for the same path was refused
C2_Witness ==
    \E p, q \in Procs :
        /\ p # q /\ lock_file_path[p] = lock_file_path[q]
        /\ pc[p] = "engine" /\ locks[lock_file_path[p]].holder = p
        /\ exc[q] = "LockHeldError"

\* C3: the engine runs only inside the with block, after a successful
\* acquisition and before the release; a run whose acquisition failed never
\* starts the engine.
C3_EngineOnlyUnderLock ==
    \A p \in Procs :
        /\ pc[p] = "engine" => handle[p]
        /\ est[p] # "Idle" /\ ~Exited(p) /\ pc[p] # "exc" => handle[p]
        /\ exc[p] \in {"LockHeldError", "LockIOError"} =>
               est[p] = "Idle" /\ counts[p] = NoCounts /\ ~handle[p]

\* both lock errors have ended a run, and another run is in the engine
C3_Witness ==
    \E p, q \in Procs :
        /\ Exited(p) /\ exc[p] = "LockHeldError"
        /\ pc[q] = "engine" /\ est[q] = "Executing"

\* C4: a run ended by a fatal engine error or by a lock error exits with a
\* non-zero status; a run ended by an external cancellation exits with zero.
C4_ExitStatus ==
    \A p \in Procs : Exited(p) =>
        /\ est[p] = "Aborted" => exit_code[p] # 0
        /\ exc[p] \in {"LockHeldError", "LockIOError"} => exit_code[p] # 0
        /\ exc[p] = "KeyboardInterrupt" => exit_code[p] = 0
        /\ cancelled[p] => exit_code[p] = 0

C4_Witness ==
    \E p, q \in Procs :
        /\ Exited(p) /\ est[p] = "Aborted" /\ exit_code[p] = 1
        /\ Exited(q) /\ cancelled[q] /\ exc[q] = "none" /\ exit_code[q] = 0

C6_SameAccountSamePath ==
    \A p, q \in Procs :
        SameAccount(p, q) => lock_file_path[p] = lock_file_path[q]

\* C6 (amended): runs naming the same account and the same lock directory,
\* an omitted and an empty --lock-dir both meaning the default directory,
\* have the same lock path.
C6_SameAccountAndDirSamePath ==
    \A p, q \in Procs :
        /\ SameAccount(p, q)
        /\ \/ args[p].lock_dir = args[q].lock_dir
           \/ {args[p].lock_dir, args[q].lock_dir} \subseteq {None, ""}
        => lock_file_path[p] = lock_file_path[q]

C6_Witness ==
    \E p, q \in Procs :
        /\ SameAccount(p, q)
        /\ args[p].lock_dir = None /\ args[q].lock_dir = ""
        /\ InRegion(p) /\ exc[q] = "LockHeldError"

\* C7: an acquire that finds a record whose holder is dead or whose age has
\* passed the threshold reclaims it and succeeds; it is refused with
\* LockHeldError only if the holder is alive and the record has not expired.
C7_StaleReclaim ==
    [][\A p \in Procs :
          pc[p] = "ready" /\ pc'[p] # "ready" =>
              LET path == lock_file_path[p]
                  rec == locks[path]
                  holder_runs == rec.holder \in Procs
                                 /\ pc[rec.holder] \notin {"exited", "crashed"}
              IN  /\ rec # NoLock /\ (~holder_runs \/ rec.expired) =>
                         /\ pc'[p] = "locked"
                         /\ locks'[path] = [holder |-> p, expired |-> FALSE]
                  /\ exc'[p] = "LockHeldError" =>
                         rec # NoLock /\ holder_runs /\ ~rec.expired
                  /\ pc'[p] = "locked" => locks'[path].holder = p]_vars

\* a run holds the record that a crashed run left behind
C7_Witness ==
    \E p, q \in Procs :
        /\ p # q /\ lock_file_path[p] = lock_file_path[q]
        /\ pc[q] = "crashed" /\ handle[q]
        /\ InRegion(p) /\ locks[lock_file_path[p]].holder = p

\* C8: in bounded mode total_operated never exceeds target_amount, a round
\* commits min(per_round_amount, target_amount - total_operated), no round
\* is in progress once nothing remains, and at most
\* ceil(target_amount / per_round_amount) rounds settle.
C8_BoundedByTarget ==
    \A p \in Procs : args[p].target_amount # NoTarget =>
        LET target == args[p].target_amount[1]
            per_round == args[p].per_round_amount
            left == target - totals[p].total_operated
        IN  /\ totals[p].total_operated <= target
            /\ est[p] \in {"Executing", "Waiting"} =>
                   /\ left > 0
                   /\ amount[p] = IF per_round <= left THEN per_round ELSE left
            /\ est[p] = "Executing" => totals[p].total_operated + amount[p] <= target
            /\ est[p] = "Completed" /\ ~cancelled[p] => left = 0
            /\ (totals[p].total_cycles - 1) * per_round < target

\* target 50 and 20 per round: three rounds, the last one of 10
C8_Witness ==
    \E p \in Procs :
        /\ args[p].target_amount = <<5>> /\ args[p].per_round_amount = 2
        /\ est[p] = "Completed" /\ ~cancelled[p]
        /\ totals[p].total_cycles = 3 /\ totals[p].total_operated = 5
        /\ amount[p] = 1

\* C9: a settled round adds one to total_cycles, its amount to
\* total_operated and its profit to total_profit; a round that raised
\* Transient or was skipped by the profitability gate changes none of them.
C9_TotalsFrame ==
    [][\A p \in Procs :
          /\ est[p] \in {"Running", "Executing"} /\ est'[p] = "Waiting" =>
                 totals'[p] = totals[p]
          /\ est[p] = "Executing" /\ est'[p] = "Running" =>
                 /\ totals'[p].total_cycles = totals[p].total_cycles + 1
                 /\ totals'[p].total_operated =
                        totals[p].total_operated + amount[p]
                 /\ totals'[p].total_profit - totals[p].total_profit \in Profits
          /\ totals'[p] # totals[p] =>
                 est[p] = "Executing" /\ est'[p] = "Running"
          /\ totals'[p].total_cycles = ledger'[p].rounds]_vars

\* one round settled, one was skipped and one raised Transient
C9_Witness ==
    \E p \in Procs :
        /\ last[p].event = "transient" /\ est[p] = "Waiting"
        /\ counts[p].skips = 1 /\ counts[p].convs = 2
        /\ totals[p].total_cycles = 1 /\ totals[p].total_operated = 2

\* C10: with must_profit and a free allowance, a poll submits a conversion
\* only if the reference price is above 1.0; a poll at or below 1.0 submits
\* nothing and starts a wait, and the next poll comes only after
\* retry_wait_seconds of waiting.
C10_ProfitGate ==
    [][\A p \in Procs :
          LET polled == counts'[p].polls = counts[p].polls + 1
              gated == args[p].must_profit /\ last'[p].free
          IN  /\ polled => est[p] = "Running"
              /\ polled /\ gated /\ last'[p].price <= Parity =>
                     /\ counts'[p].convs = counts[p].convs
                     /\ est'[p] = "Waiting" /\ waited'[p] = 0
              /\ polled /\ gated /\ last'[p].price > Parity =>
                     /\ counts'[p].convs = counts[p].convs + 1
                     /\ est'[p] = "Executing"
              /\ est[p] = "Waiting" /\ est'[p] = "Running" =>
                     waited[p] = args[p].retry_wait_seconds
              /\ counts'[p].convs # counts[p].convs /\ args[p].must_profit =>
                     polled]_vars

\* the feed 0.999, 0.999, 1.002: two skipped polls, then one conversion
C10_Witness ==
    \E p \in Procs :
        /\ args[p].must_profit /\ args[p].retry_wait_seconds = 1
        /\ counts[p] = [polls |-> 3, convs |-> 1, skips |-> 2]
        /\ last[p] = [event |-> "submitted", price |-> 1002, free |-> TRUE]
        /\ est[p] = "Executing"

====
